---- MODULE Spec2Model ----
(***************************************************************************)
(* A model of workflow/scripts/tree_distances.py: the Boot-Split Distance  *)
(* (BSD) of two trees and the distance matrices written from a tree list.  *)
(*                                                                         *)
(* Python floats are IEEE-754 binary64 numbers.  The arithmetic of the     *)
(* script (int/int true division, float +, -, *, /, the builtin sum of     *)
(* CPython up to 3.11, which adds left to right) is modelled bit for bit:  *)
(* a float is its sign, its 53-bit significand and its binary exponent,    *)
(* and every operation rounds its exact result to nearest, ties to even.   *)
(***************************************************************************)
EXTENDS Integers, Sequences, FiniteSets, TLC

(***************************************************************************)
(* Non-negative big integers: little-endian sequences of limbs in base     *)
(* 2^15 with no most-significant zero limb; <<>> is 0.                     *)
(***************************************************************************)
Base == 2^15

RECURSIVE BigTrim(_)
BigTrim(a) ==
    IF a = <<>> THEN a
    ELSE IF a[Len(a)] = 0 THEN BigTrim(SubSeq(a, 1, Len(a) - 1)) ELSE a

RECURSIVE BigFromInt(_)
BigFromInt(n) ==
    IF n = 0 THEN <<>> ELSE <<n % Base>> \o BigFromInt(n \div Base)

Limb(a, i) == IF i <= Len(a) THEN a[i] ELSE 0

RECURSIVE BigAddC(_, _, _, _)
BigAddC(a, b, i, c) ==
    IF i > Len(a) /\ i > Len(b)
    THEN (IF c = 0 THEN <<>> ELSE <<c>>)
    ELSE LET s == Limb(a, i) + Limb(b, i) + c
         IN  <<s % Base>> \o BigAddC(a, b, i + 1, s \div Base)

BigAdd(a, b) == BigAddC(a, b, 1, 0)

RECURSIVE BigSubB(_, _, _, _)
BigSubB(a, b, i, br) ==
    IF i > Len(a) THEN <<>>
    ELSE LET d == a[i] - Limb(b, i) - br
         IN  IF d < 0 THEN <<d + Base>> \o BigSubB(a, b, i + 1, 1)
                      ELSE <<d>> \o BigSubB(a, b, i + 1, 0)

\* a - b for a >= b
BigSub(a, b) == BigTrim(BigSubB(a, b, 1, 0))

RECURSIVE BigCmpAt(_, _, _)
BigCmpAt(a, b, i) ==
    IF i = 0 THEN 0
    ELSE IF a[i] < b[i] THEN -1
    ELSE IF a[i] > b[i] THEN 1
    ELSE BigCmpAt(a, b, i - 1)

\* -1, 0, 1 as a < b, a = b, a > b
BigCmp(a, b) ==
    IF Len(a) < Len(b) THEN -1
    ELSE IF Len(a) > Len(b) THEN 1
    ELSE BigCmpAt(a, b, Len(a))

RECURSIVE BigMulSmallC(_, _, _, _)
BigMulSmallC(a, k, i, c) ==
    IF i > Len(a)
    THEN (IF c = 0 THEN <<>> ELSE <<c>>)
    ELSE LET p == a[i] * k + c
         IN  <<p % Base>> \o BigMulSmallC(a, k, i + 1, p \div Base)

\* a * k for 0 <= k < Base
BigMulSmall(a, k) == IF k = 0 THEN <<>> ELSE BigMulSmallC(a, k, 1, 0)

BigShiftLimbs(a, n) == IF a = <<>> THEN a ELSE [i \in 1..n |-> 0] \o a

RECURSIVE BigMulAt(_, _, _)
BigMulAt(a, b, i) ==
    IF i > Len(b) THEN <<>>
    ELSE BigAdd(BigShiftLimbs(BigMulSmall(a, b[i]), i - 1), BigMulAt(a, b, i + 1))

BigMul(a, b) == BigMulAt(a, b, 1)

\* a * 2^s
BigShl(a, s) == BigShiftLimbs(BigMulSmall(a, 2^(s % 15)), s \div 15)

RECURSIVE BigDivSmallAt(_, _, _, _)
BigDivSmallAt(a, k, i, r) ==
    IF i = 0 THEN <<>>
    ELSE LET cur == r * Base + a[i]
         IN  BigDivSmallAt(a, k, i - 1, cur % k) \o <<cur \div k>>

\* floor(a / k) for 0 < k < Base
BigDivSmall(a, k) == BigTrim(BigDivSmallAt(a, k, Len(a), 0))

\* floor(a / 2^s)
BigShr(a, s) ==
    IF s \div 15 >= Len(a) THEN <<>>
    ELSE BigDivSmall(SubSeq(a, s \div 15 + 1, Len(a)), 2^(s % 15))

\* a mod 2^s
BigLowBits(a, s) ==
    IF s \div 15 >= Len(a) THEN a
    ELSE BigTrim(SubSeq(a, 1, s \div 15) \o <<a[s \div 15 + 1] % (2^(s % 15))>>)

RECURSIVE BitLenSmall(_)
BitLenSmall(n) == IF n = 0 THEN 0 ELSE 1 + BitLenSmall(n \div 2)

BitLen(a) == IF a = <<>> THEN 0 ELSE 15 * (Len(a) - 1) + BitLenSmall(a[Len(a)])

(***************************************************************************)
(* A float is [neg, m, e] with value (-1)^neg * m * 2^e, where m is a big  *)
(* integer of exactly 53 bits, or <<>> for zero.                           *)
(***************************************************************************)
FZero == [neg |-> FALSE, m |-> <<>>, e |-> 0]

\* The float of sign neg and magnitude q2 * 2^e, where q2 has 53 bits, or 54
\* after a round-up carried into a new bit.
RoundCarry(neg, q2, e) ==
    IF BitLen(q2) = 54
    THEN [neg |-> neg, m |-> BigShr(q2, 1), e |-> e + 1]
    ELSE [neg |-> neg, m |-> q2, e |-> e]

\* q holds the 53 leading bits; c compares the bits cut off with one half
\* (-1, 0, 1), and sticky tells of a nonzero part below them.
RoundHalfEven(neg, q, c, sticky, e) ==
    RoundCarry(neg,
               IF c > 0 \/ (c = 0 /\ (sticky \/ q[1] % 2 = 1))
               THEN BigAdd(q, <<1>>) ELSE q,
               e)

RoundBits(neg, n, sticky, e, len) ==
    IF len <= 53
    THEN [neg |-> neg, m |-> BigShl(n, 53 - len), e |-> e - (53 - len)]
    ELSE RoundHalfEven(neg, BigShr(n, len - 53),
                       BigCmp(BigLowBits(n, len - 53), BigShl(<<1>>, len - 54)),
                       sticky, e + (len - 53))

\* The float nearest to (n + d) * 2^e, ties to even, where n is a big
\* integer and 0 <= d < 1 is nonzero iff sticky (only when n has more than
\* 53 bits).
RoundNearestEven(neg, n, sticky, e) ==
    IF n = <<>> THEN FZero ELSE RoundBits(neg, n, sticky, e, BitLen(n))

\* float(n) for an int n >= 0
FromInt(n) == RoundNearestEven(FALSE, BigFromInt(n), FALSE, 0)

FIsZero(x) == x.m = <<>>

MinE(x, y) == IF x.e < y.e THEN x.e ELSE y.e

\* -1, 0, 1 as |x| < |y|, |x| = |y|, |x| > |y|
FCmpAligned(x, y, em) == BigCmp(BigShl(x.m, x.e - em), BigShl(y.m, y.e - em))

FCmpMag(x, y) ==
    IF FIsZero(x) THEN (IF FIsZero(y) THEN 0 ELSE -1)
    ELSE IF FIsZero(y) THEN 1
    ELSE FCmpAligned(x, y, MinE(x, y))

\* x <= y
FLe(x, y) ==
    IF x.neg /\ ~y.neg THEN TRUE
    ELSE IF ~x.neg /\ y.neg THEN FIsZero(x) /\ FIsZero(y)
    ELSE IF x.neg THEN FCmpMag(x, y) >= 0
    ELSE FCmpMag(x, y) <= 0

FNeg(x) == IF FIsZero(x) THEN x ELSE [x EXCEPT !.neg = ~x.neg]

\* x + y for nonzero x = nx * 2^em and y = ny * 2^em
FAddAligned(xneg, nx, yneg, ny, em) ==
    IF xneg = yneg
    THEN RoundNearestEven(xneg, BigAdd(nx, ny), FALSE, em)
    ELSE IF BigCmp(nx, ny) >= 0
    THEN RoundNearestEven(xneg, BigSub(nx, ny), FALSE, em)
    ELSE RoundNearestEven(yneg, BigSub(ny, nx), FALSE, em)

FAddAt(x, y, em) ==
    FAddAligned(x.neg, BigShl(x.m, x.e - em), y.neg, BigShl(y.m, y.e - em), em)

\* x + y
FAdd(x, y) ==
    IF FIsZero(x) THEN y
    ELSE IF FIsZero(y) THEN x
    ELSE FAddAt(x, y, MinE(x, y))

\* x - y
FSub(x, y) == FAdd(x, FNeg(y))

\* x * y
FMul(x, y) ==
    IF FIsZero(x) \/ FIsZero(y) THEN FZero
    ELSE RoundNearestEven(x.neg # y.neg, BigMul(x.m, y.m), FALSE, x.e + y.e)

\* One quotient bit: r2 is twice the remainder so far.
DivBit(r2, b) ==
    IF BigCmp(r2, b) >= 0 THEN <<(<<1>>), BigSub(r2, b)>> ELSE <<(<<>>), r2>>

DivJoin(q1, rest, k2) == <<BigAdd(BigShl(q1, k2), rest[1]), rest[2]>>

\* The next k quotient bits of r / b (r < b) and the remainder left: <<q, r'>>
\* with r * 2^k = q * b + r'.  The bits are produced by halving k, which keeps
\* the evaluation shallow.
RECURSIVE DivBits(_, _, _)
RECURSIVE DivRest(_, _, _)
DivBits(r, b, k) ==
    IF k = 1 THEN DivBit(BigAdd(r, r), b)
    ELSE DivRest(DivBits(r, b, k \div 2), b, k - k \div 2)

DivRest(first, b, k2) == DivJoin(first[1], DivBits(first[2], b, k2), k2)

\* the quotient's leading bit is ge; qr holds its next 55 bits and the remainder
FDivRound(neg, ge, qr, e) ==
    RoundNearestEven(neg,
                     IF ge THEN BigAdd(BigShl(<<1>>, 55), qr[1]) ELSE qr[1],
                     qr[2] # <<>>, e)

FDivFrom(x, y, ge) ==
    FDivRound(x.neg # y.neg, ge,
              DivBits(IF ge THEN BigSub(x.m, y.m) ELSE x.m, y.m, 55),
              x.e - y.e - 55)

\* x / y for y # 0 (the callers raise ZeroDivisionError before dividing by 0)
FDiv(x, y) ==
    IF FIsZero(x) THEN FZero ELSE FDivFrom(x, y, BigCmp(x.m, y.m) >= 0)

(***************************************************************************)
(* Python values.  An int is tagged with its type, so that Python's ==     *)
(* between values of different types is decided by the types.  A split     *)
(* bitmask is an int over the taxon namespace; it is held as the set of    *)
(* the taxa whose bit is set.  A node's label is None or the decimal       *)
(* string of a support percentage: <<>> is None and <<n>> is the string    *)
(* that int() parses to n.                                                 *)
(***************************************************************************)
None == <<>>

PyInt(v) == [type |-> "int", v |-> v]

\* a dendropy Node, as get_bsd reads it: node.split_bitmask and node.label
Node(mask, label) ==
    [type |-> "Node", split_bitmask |-> PyInt(mask), label |-> label]

\* a == b.  Values of one type compare by value; an int and a Node are
\* never equal (int.__eq__ declines, Node.__eq__ is identity).
PyEq(a, b) == IF a.type = b.type THEN a = b ELSE FALSE

\* iterating a dendropy Tree yields its nodes in preorder: the "bipartitions"
\* of get_bipartitions are the tree's Node objects.  (The second result, the
\* Newick strings, is read by no caller.)
get_bipartitions(tree) == tree

\* the taxa under a tree's nodes (its leaf set)
Leaves(tree) == UNION {tree[k].split_bitmask.v : k \in 1..Len(tree)}

\* get_shared never gets past its first line: firstTreeNodes and
\* secondTreeNodes are names that exist nowhere (the parameters are
\* firstTreeLeaves and secondTreeLeaves), so every call raises NameError
\* before the assert is reached.
get_shared(firstTreeLeaves, secondTreeLeaves) == [raised |-> "NameError"]

\* any(x.split_bitmask == b for x in bips)
AnyBitmaskEq(bips, b) == \E k \in 1..Len(bips) : PyEq(bips[k].split_bitmask, b)

\* the first loop of get_pruned_bips, from index i on
RECURSIVE PrunedLoop1(_, _, _, _)
PrunedLoop1(bips1, bips2, i, acc) ==
    IF i > Len(bips1) THEN acc
    ELSE IF AnyBitmaskEq(bips2, bips1[i])
    THEN PrunedLoop1(bips1, bips2, i + 1,
                     [acc EXCEPT !.bipsEqual = Append(@, bips1[i])])
    ELSE PrunedLoop1(bips1, bips2, i + 1,
                     [acc EXCEPT !.bipsDiff = Append(@, bips1[i])])

\* the second loop of get_pruned_bips, from index j on
RECURSIVE PrunedLoop2(_, _, _, _)
PrunedLoop2(bips1, bips2, j, acc) ==
    IF j > Len(bips2) THEN acc
    ELSE IF AnyBitmaskEq(bips1, bips2[j])
    THEN PrunedLoop2(bips1, bips2, j + 1,
                     IF ~AnyBitmaskEq(acc.bipsEqual, bips2[j])
                     THEN [acc EXCEPT !.bipsEqual = Append(@, bips2[j])]
                     ELSE acc)
    ELSE PrunedLoop2(bips1, bips2, j + 1,
                     IF ~AnyBitmaskEq(acc.bipsDiff, bips2[j])
                     THEN [acc EXCEPT !.bipsDiff = Append(@, bips2[j])]
                     ELSE acc)

get_pruned_bips(bips1, bips2) ==
    PrunedLoop2(bips1, bips2, 1,
                PrunedLoop1(bips1, bips2, 1, [bipsDiff |-> <<>>, bipsEqual |-> <<>>]))

\* int(num) / 100 as a float, for a label <<n>>
BSTable[n \in 0..100] == FDiv(FromInt(n), FromInt(100))

BSVal(num) == BSTable[num[1]]

\* sum(BS_vals): the builtin adds left to right, starting from the int 0
RECURSIVE SumFrom(_, _, _)
SumFrom(nums, k, acc) ==
    IF k > Len(nums) THEN acc ELSE SumFrom(nums, k + 1, FAdd(acc, BSVal(nums[k])))

\* a variant that tests the label's truth value: a support of 0 counts as none
HasLabelTruthy(bip) == bip.label # None /\ bip.label # <<0>>

HasLabel(bip) == bip.label # None

LabelOf(bipartitions) == [k \in 1..Len(bipartitions) |-> bipartitions[k].label]

\* (sum_BS, nums).  The int 0 that sum([]) returns is held as the float zero:
\* Python's 0 and 0.0 are equal and divide alike.
SumOf(nums) == [sum_BS |-> SumFrom(nums, 1, FZero), nums |-> nums]

get_sum(bipartitions) == SumOf(LabelOf(SelectSeq(bipartitions, HasLabel)))

get_mean_BSD(sumBS, listBS) ==
    IF Len(listBS) = 0 THEN FZero ELSE FDiv(sumBS, FromInt(Len(listBS)))

\* A call's outcome: a returned value or a raised exception.
Return(v) == [raised |-> "no", value |-> v]

Raise(e) == [raised |-> e]

\* a variant of the division that yields a placeholder on a zero divisor
PyDivOrZero(x, y) == IF FIsZero(y) THEN Return(FZero) ELSE Return(FDiv(x, y))

\* the / of Python: ZeroDivisionError on a zero divisor
PyDiv(x, y) == IF FIsZero(y) THEN Raise("ZeroDivisionError") ELSE Return(FDiv(x, y))

\* 1 - q * mean_BS_mutual, for the outcome q of the division
eBSDOf(q, mean_BS_mutual) ==
    IF q.raised # "no" THEN q
    ELSE Return(FSub(FromInt(1), FMul(q.value, mean_BS_mutual)))

eBSD(sum_total_BS, sum_mutual_split_BS, mean_BS_mutual) ==
    eBSDOf(PyDiv(sum_mutual_split_BS, sum_total_BS), mean_BS_mutual)

dBSDOf(q, mean_BS_diff) ==
    IF q.raised # "no" THEN q ELSE Return(FMul(q.value, mean_BS_diff))

dBSD(sum_total_BS, sum_diff_split_BS, mean_BS_diff) ==
    dBSDOf(PyDiv(sum_diff_split_BS, sum_total_BS), mean_BS_diff)

\* a variant that adds the two terms and does not halve the sum
BSDOfSum(equalBSD, diffBSD) ==
    IF equalBSD.raised # "no" THEN equalBSD
    ELSE IF diffBSD.raised # "no" THEN diffBSD
    ELSE Return([bootSplitDist |-> FAdd(equalBSD.value, diffBSD.value),
                 equalBSD |-> equalBSD.value,
                 diffBSD |-> diffBSD.value])

\* bootSplitDist = ((equalBSD+diffBSD)/2), once both calls are made
BSDOf(equalBSD, diffBSD) ==
    IF equalBSD.raised # "no" THEN equalBSD
    ELSE IF diffBSD.raised # "no" THEN diffBSD
    ELSE Return([bootSplitDist |-> FDiv(FAdd(equalBSD.value, diffBSD.value), FromInt(2)),
                 equalBSD |-> equalBSD.value,
                 diffBSD |-> diffBSD.value])

BSD(sum_total_BS, sum_mutual_split_BS, sum_diff_split_BS, mean_BS_mutual, mean_BS_diff) ==
    BSDOf(eBSD(sum_total_BS, sum_mutual_split_BS, mean_BS_mutual),
          dBSD(sum_total_BS, sum_diff_split_BS, mean_BS_diff))

\* the return statement of get_bsd, reached when BSD raised nothing
BsdReturn(bsd, sum_total_BS, sum_mutual_BS, sum_diff_BS, mean_BS_mutual, mean_BS_diff) ==
    IF bsd.raised # "no" THEN bsd
    ELSE Return([BSD_val |-> bsd.value.bootSplitDist,
                 eBSD |-> bsd.value.equalBSD,
                 dBSD |-> bsd.value.diffBSD,
                 sum_total_BS |-> sum_total_BS,
                 sum_mutual_BS |-> sum_mutual_BS,
                 sum_diff_BS |-> sum_diff_BS,
                 mean_BS_mutual |-> mean_BS_mutual,
                 mean_BS_diff |-> mean_BS_diff])

\* get_bsd from the call of BSD on
BsdOfMeans(sum_total_BS, sum_mutual_BS, sum_diff_BS, mean_BS_mutual, mean_BS_diff) ==
    BsdReturn(BSD(sum_total_BS, sum_mutual_BS, sum_diff_BS, mean_BS_mutual, mean_BS_diff),
              sum_total_BS, sum_mutual_BS, sum_diff_BS, mean_BS_mutual, mean_BS_diff)

\* get_bsd from the means on: mutual and diff are get_sum's results
BsdOfSums(sum_total_BS, mutual, diff) ==
    BsdOfMeans(sum_total_BS, mutual.sum_BS, diff.sum_BS,
               get_mean_BSD(mutual.sum_BS, mutual.nums),
               get_mean_BSD(diff.sum_BS, diff.nums))

\* get_bsd from the sums on: pruned is get_pruned_bips's result
BsdOfPruned(bips_1, bips_2, pruned) ==
    BsdOfSums(FAdd(get_sum(bips_1).sum_BS, get_sum(bips_2).sum_BS),
              get_sum(pruned.bipsEqual), get_sum(pruned.bipsDiff))

BsdOfBips(bips_1, bips_2) ==
    BsdOfPruned(bips_1, bips_2, get_pruned_bips(bips_1, bips_2))

get_bsd(tree_1, tree_2) ==
    BsdOfBips(get_bipartitions(tree_1), get_bipartitions(tree_2))

(***************************************************************************)
(* The program state.                                                      *)
(*   dd_trees   the parsed trees, each the preorder sequence of its nodes  *)
(*   trees      the global list of the Newick strings read from the files  *)
(*   tree_list  make_distance_matrix's list argument: references to trees  *)
(*   tree_dict  its mapping argument, tree -> label, in insertion order    *)
(*   dist_type  the matrix being written: 'rf', then 'bsd'                 *)
(*   csv        the two output files                                       *)
(*   pc, row, i, distances   the position in make_distance_matrix and its  *)
(*              locals (row and i count from 1)                            *)
(*   last_call  the arguments of the latest distance call                  *)
(*   ret        the outcome of the latest function applied                 *)
(***************************************************************************)
VARIABLES dd_trees, trees, tree_list, tree_dict, dist_type, csv, pc, row, i,
          distances, last_call, ret

vars == <<dd_trees, trees, tree_list, tree_dict, dist_type, csv, pc, row, i,
          distances, last_call, ret>>

\* Bounds of the model.
MaxFiles == 2

MaxNodes == 3

\* The nodes the inputs are built from: an unlabelled root over four taxa and
\* clades with support labels 0, 10 and 100.
NodeKinds ==
    { Node({1, 2, 3, 4}, None), Node({1, 2}, <<10>>), Node({1, 2}, <<100>>),
      Node({1, 3}, <<0>>), Node({3, 4}, <<100>>) }

SeqsUpTo(S, n) == UNION {[1..k -> S] : k \in 0..n}

\* The trees the matrices are built from.
Forest ==
    { <<Node({1, 2, 3, 4}, None)>>,
      <<Node({1, 2, 3, 4}, None), Node({1, 3}, <<0>>)>>,
      <<Node({1, 2, 3, 4}, None), Node({1, 2}, <<10>>)>>,
      <<Node({1, 2, 3, 4}, None), Node({1, 2}, <<10>>), Node({3, 4}, <<100>>)>> }

\* The names os.listdir may return, each as its parts between the dots.
FileNames ==
    { <<"1", "a", "treefile">>, <<"1", "b", "treefile">>, <<"2", "treefile">>,
      <<"readme", "txt">> }

\* a directory listing: distinct names, in any order
Listings == {l \in SeqsUpTo(FileNames, MaxFiles) :
                \A a, b \in 1..Len(l) : a # b => l[a] # l[b]}

\* filename.endswith('.treefile')
EndsWithTreefile(filename) ==
    Len(filename) >= 2 /\ filename[Len(filename)] = "treefile"

\* "tree_" + name[0], for name = filename.split('.'): the two strings joined
TreeName(filename) == <<"tree_", filename[1]>>

\* files: one tree name for each .treefile of the listing, in listing order
files(listing) ==
    LET kept == SelectSeq(listing, EndsWithTreefile)
    IN  [k \in 1..Len(kept) |-> TreeName(kept[k])]

\* References to Python objects: a parsed Tree, a Newick string.
TreeRef(k) == [type |-> "Tree", id |-> k]

StrRef(k) == [type |-> "str", id |-> k]

\* a is not b
IsNot(a, b) == a # b

NoCall == [fn |-> "none"]

Closed == [state |-> "closed", opens |-> 0, rows |-> <<>>]

FileName(kind) == IF kind = "rf" THEN "rf_matrix.csv" ELSE "bsd_matrix.csv"

\* The state when __main__ reaches its first call of make_distance_matrix.
\* tree_list is dd_trees and trees is the global list of Newick strings.
\* tree_dict is dict(zip(dd_trees, files)): a dict keeps insertion order, so
\* it lists the trees in the order of dd_trees; its keys are the Tree objects,
\* so two trees may carry the same name.
Init ==
    \E listing \in Listings :
      \E ts \in [1..Len(files(listing)) -> Forest] :
        /\ dd_trees = ts
        /\ trees = [k \in 1..Len(ts) |-> StrRef(k)]
        /\ tree_list = [k \in 1..Len(ts) |-> TreeRef(k)]
        /\ tree_dict = [p \in 1..Len(ts) |-> <<TreeRef(p), files(listing)[p]>>]
        /\ dist_type = "rf"
        /\ csv = [f \in {"rf_matrix.csv", "bsd_matrix.csv"} |-> Closed]
        /\ pc = "call"
        /\ row = 0
        /\ i = 0
        /\ distances = <<>>
        /\ last_call = NoCall
        /\ ret = Raise("none")

\* tree_dict[tree]
DictGet(dict, tree) == (CHOOSE p \in 1..Len(dict) : dict[p][1] = tree)

Label(dict, tree) == dict[DictGet(dict, tree)][2]

\* open(file_name, 'w'): the file is created or truncated
Open(f) == [state |-> "open", opens |-> f.opens + 1, rows |-> <<>>]

\* a variant that leaves the file as it is: no scoped close
ExitWithoutClose(f) == f

\* leaving the with block, by its end or by an exception: the file is closed
ExitWith(f) == [f EXCEPT !.state = "closed"]

\* csv_writer.writerow
WriteRow(f, r) == [f EXCEPT !.rows = Append(@, r)]

\* treecompare.weighted_robinson_foulds_distance, a primitive of dendropy:
\* a symmetric function of the two trees, left uninterpreted.
weighted_robinson_foulds_distance(tree_1, tree_2) ==
    Return([wrf |-> {tree_1, tree_2}])

\* a variant of the header line without its leading ',' cell
HeaderNoCorner(dict) == [p \in 1..Len(dict) |-> dict[p][2]]

\* the header line
Header(dict) == <<",">> \o [p \in 1..Len(dict) |-> dict[p][2]]

OpenFile ==
    /\ pc = "call"
    /\ csv' = [csv EXCEPT ![FileName(dist_type)] = Open(@)]
    /\ pc' = "header"
    /\ UNCHANGED <<dd_trees, trees, tree_list, tree_dict, dist_type, row, i,
                   distances, last_call, ret>>

WriteHeader ==
    /\ pc = "header"
    /\ csv' = [csv EXCEPT ![FileName(dist_type)] = WriteRow(@, Header(tree_dict))]
    /\ row' = 1
    /\ pc' = "row"
    /\ UNCHANGED <<dd_trees, trees, tree_list, tree_dict, dist_type, i,
                   distances, last_call, ret>>

\* for tree_ref in tree_list: the row starts with the tree's label
BeginRow ==
    /\ pc = "row"
    /\ row <= Len(tree_list)
    /\ distances' = <<Label(tree_dict, tree_list[row])>>
    /\ i' = 1
    /\ pc' = "cell"
    /\ UNCHANGED <<dd_trees, trees, tree_list, tree_dict, dist_type, csv, row,
                   last_call, ret>>

\* the outcome of the distance call of one cell
Distance(kind, tree_1, tree_2) ==
    IF kind = "rf"
    THEN weighted_robinson_foulds_distance(tree_1, tree_2)
    ELSE get_bsd(tree_1, tree_2)

\* dist_val, taken from the call's result
DistVal(kind, out) == IF kind = "rf" THEN out.value ELSE out.value.BSD_val

\* the body of the test of the inner loop: the call has returned or raised out
CellDone(out) ==
    /\ ret' = out
    /\ IF out.raised # "no"
       THEN /\ csv' = [csv EXCEPT ![FileName(dist_type)] = ExitWith(@)]
            /\ pc' = "raised"
            /\ UNCHANGED <<i, distances>>
       ELSE /\ distances' = Append(distances, DistVal(dist_type, out))
            /\ i' = i + 1
            /\ UNCHANGED <<csv, pc>>

\* one pass of the inner loop, for i in range(len(tree_list)): the distance is
\* computed when trees[i] is not tree_ref, and the cell is skipped otherwise
Cell ==
    /\ pc = "cell"
    /\ i <= Len(tree_list)
    /\ IF IsNot(trees[i], tree_list[row])
       THEN /\ last_call' = [fn |-> IF dist_type = "rf"
                                    THEN "weighted_robinson_foulds_distance"
                                    ELSE "get_bsd",
                             tree_1 |-> tree_list[row], tree_2 |-> tree_list[i]]
            /\ CellDone(Distance(dist_type, dd_trees[tree_list[row].id],
                                 dd_trees[tree_list[i].id]))
       ELSE /\ i' = i + 1
            /\ UNCHANGED <<csv, pc, distances, last_call, ret>>
    /\ UNCHANGED <<dd_trees, trees, tree_list, tree_dict, dist_type, row>>

EndRow ==
    /\ pc = "cell"
    /\ i > Len(tree_list)
    /\ csv' = [csv EXCEPT ![FileName(dist_type)] = WriteRow(@, distances)]
    /\ row' = row + 1
    /\ pc' = "row"
    /\ UNCHANGED <<dd_trees, trees, tree_list, tree_dict, dist_type, i,
                   distances, last_call, ret>>

\* the end of the with block; __main__ then calls for the 'bsd' matrix
EndCall ==
    /\ pc = "row"
    /\ row > Len(tree_list)
    /\ csv' = [csv EXCEPT ![FileName(dist_type)] = ExitWith(@)]
    /\ IF dist_type = "rf"
       THEN dist_type' = "bsd" /\ pc' = "call"
       ELSE dist_type' = dist_type /\ pc' = "exit"
    /\ UNCHANGED <<dd_trees, trees, tree_list, tree_dict, row, i, distances,
                   last_call, ret>>

Next == OpenFile \/ WriteHeader \/ BeginRow \/ Cell \/ EndRow \/ EndCall

Spec == Init /\ [][Next]_vars

(***************************************************************************)
(* The functions of the script applied to a pair of trees: SpecFn draws    *)
(* two trees of at most MaxNodes nodes together and applies one function.  *)
(***************************************************************************)
InitFn ==
    \E A \in SeqsUpTo(NodeKinds, MaxNodes), B \in SeqsUpTo(NodeKinds, MaxNodes) :
        /\ Len(A) + Len(B) <= MaxNodes
        /\ dd_trees = <<A, B>>
        /\ trees = <<>>
        /\ tree_list = <<>>
        /\ tree_dict = <<>>
        /\ dist_type = "bsd"
        /\ csv = [f \in {"rf_matrix.csv", "bsd_matrix.csv"} |-> Closed]
        /\ pc = "args"
        /\ row = 0
        /\ i = 0
        /\ distances = <<>>
        /\ last_call = NoCall
        /\ ret = Raise("none")

\* the Support Aggregator: get_sum, then get_mean_BSD on its result
MeanOf(s) == [raised |-> "no", sum_BS |-> s.sum_BS, nums |-> s.nums,
              mean |-> get_mean_BSD(s.sum_BS, s.nums)]

ApplyGetBsd ==
    /\ pc = "args"
    /\ pc' = "get_bsd"
    /\ ret' = get_bsd(dd_trees[1], dd_trees[2])
    /\ UNCHANGED <<dd_trees, trees, tree_list, tree_dict, dist_type, csv, row, i,
                   distances, last_call>>

ApplyGetPrunedBips ==
    /\ pc = "args"
    /\ pc' = "get_pruned_bips"
    /\ ret' = get_pruned_bips(get_bipartitions(dd_trees[1]),
                              get_bipartitions(dd_trees[2]))
    /\ UNCHANGED <<dd_trees, trees, tree_list, tree_dict, dist_type, csv, row, i,
                   distances, last_call>>

ApplyGetMean ==
    /\ pc = "args"
    /\ pc' = "get_mean_BSD"
    /\ ret' = MeanOf(get_sum(get_bipartitions(dd_trees[1])))
    /\ UNCHANGED <<dd_trees, trees, tree_list, tree_dict, dist_type, csv, row, i,
                   distances, last_call>>

ApplyGetShared ==
    /\ pc = "args"
    /\ pc' = "get_shared"
    /\ ret' = get_shared(Leaves(dd_trees[1]), Leaves(dd_trees[2]))
    /\ UNCHANGED <<dd_trees, trees, tree_list, tree_dict, dist_type, csv, row, i,
                   distances, last_call>>

NextFn == ApplyGetBsd \/ ApplyGetPrunedBips \/ ApplyGetMean \/ ApplyGetShared

SpecFn == InitFn /\ [][NextFn]_vars

(***************************************************************************)
(* Properties.                                                             *)
(***************************************************************************)
Bitmasks(bips) == {bips[k].split_bitmask : k \in 1..Len(bips)}

Labelled(bips) == {k \in 1..Len(bips) : bips[k].label # None}

\* the support percentages of both trees of SpecFn
Supports == {dd_trees[1][k].label[1] : k \in Labelled(dd_trees[1])}
              \cup {dd_trees[2][k].label[1] : k \in Labelled(dd_trees[2])}

FOne == FromInt(1)

InUnit(x) == FLe(FZero, x) /\ FLe(x, FOne)

\* C1: get_bsd of two identical trees (same nodes, same supports) with at
\* least one support label returns a BSD of 0.
C1_IdenticalTreesBsdZero ==
    (pc = "get_bsd" /\ dd_trees[1] = dd_trees[2] /\ Labelled(dd_trees[1]) # {})
        => (ret.raised = "no" /\ ret.value.BSD_val = FZero)

\* C2: get_pruned_bips returns as shared exactly the bitmasks that occur in
\* both sequences, each once, and as differing exactly those that occur in one
\* of them; no bitmask is in both results, and differing is empty when the two
\* sequences have the same bitmasks.
C2_PrunedBipsPartition ==
    pc = "get_pruned_bips" =>
        LET inA == Bitmasks(dd_trees[1])
            inB == Bitmasks(dd_trees[2])
        IN  /\ Bitmasks(ret.bipsEqual) = inA \cap inB
            /\ Len(ret.bipsEqual) = Cardinality(inA \cap inB)
            /\ Bitmasks(ret.bipsDiff) = (inA \cup inB) \ (inA \cap inB)
            /\ Bitmasks(ret.bipsEqual) \cap Bitmasks(ret.bipsDiff) = {}
            /\ (inA = inB => ret.bipsDiff = <<>>)

\* C3: the BSD matrix is symmetric: the value of get_bsd(A, B) written in the
\* row of A equals the value of get_bsd(B, A) written in the row of B.
C3_BsdMatrixSymmetric ==
    LET rows == csv["bsd_matrix.csv"].rows
    IN  \A a \in 1..Len(tree_list), b \in 1..Len(tree_list) :
            (a # b /\ a + 1 <= Len(rows) /\ b + 1 <= Len(rows))
                => rows[a + 1][b + 1] = rows[b + 1][a + 1]

\* C4: when the total support of the two trees is zero (no node carries a
\* label, or every label is 0), get_bsd raises and returns no value.
C4_ZeroTotalRaises ==
    (pc = "get_bsd" /\ Supports \subseteq {0})
        => (ret.raised = "ZeroDivisionError" /\ DOMAIN ret = {"raised"})

C4_Witness ==
    /\ pc = "get_bsd"
    /\ Supports = {0}
    /\ ret.raised = "ZeroDivisionError"

\* C5: get_bsd raises for every pair of trees that share fewer than 4 taxa,
\* and the overlap check rejects no pair that shares 4 or more.
C5_RejectsSmallOverlap ==
    pc = "get_bsd" =>
        IF Cardinality(Leaves(dd_trees[1]) \cap Leaves(dd_trees[2])) < 4
        THEN ret.raised # "no"
        ELSE ret.raised \notin {"AssertionError", "NameError"}

\* C6: the distance function is never called with the same tree as both
\* arguments.
C6_NeverSelfCompared ==
    last_call.fn # "none" => last_call.tree_1 # last_call.tree_2

\* the label of tree number k
LabelOfTree(k) == Label(tree_dict, tree_list[k])

\* no two trees carry the same label
DistinctLabels ==
    \A a, b \in 1..Len(tree_list) : a # b => LabelOfTree(a) # LabelOfTree(b)

\* the tree whose label is l
TreeOfLabel(l) == CHOOSE k \in 1..Len(tree_list) : LabelOfTree(k) = l

\* the distance of the given kind between trees number a and b
DistanceOf(kind, a, b) == DistVal(kind, Distance(kind, dd_trees[a], dd_trees[b]))

\* the cell of rows found by a row label and a header label is the distance
\* between the trees of the two labels
CellsByLabel(kind, rows) ==
    \A x \in 2..Len(rows), c \in 2..Len(rows[1]) :
        TreeOfLabel(rows[x][1]) # TreeOfLabel(rows[1][c])
            => /\ c <= Len(rows[x])
               /\ rows[x][c] = DistanceOf(kind, TreeOfLabel(rows[x][1]),
                                          TreeOfLabel(rows[1][c]))

\* C7: in each table written, every tree of the list has a row that begins
\* with its label and a column headed by its label, and the value placed in
\* the row of tree i under the header label of tree j, i # j, is the chosen
\* distance between tree i and tree j, whatever the order of the trees in the
\* input list; when no two trees carry the same label, the value found by a
\* row label and a header label is the distance between the trees so labelled.
C7_CellsUnderLabels ==
    pc = "exit" =>
        \A kind \in {"rf", "bsd"} :
            LET rows == csv[FileName(kind)].rows
            IN  /\ Len(rows) = Len(tree_list) + 1
                /\ Len(rows[1]) = Len(tree_list) + 1
                /\ \A a \in 1..Len(tree_list) :
                       /\ rows[a + 1][1] = LabelOfTree(a)
                       /\ rows[1][a + 1] = LabelOfTree(a)
                /\ \A a, b \in 1..Len(tree_list) :
                       a # b => /\ b + 1 <= Len(rows[a + 1])
                                /\ rows[a + 1][b + 1] = DistanceOf(kind, a, b)
                /\ DistinctLabels => CellsByLabel(kind, rows)

\* both tables are complete for two trees or more, and a row of the BSD table
\* holds different values in its columns
C7_Witness ==
    /\ pc = "exit"
    /\ Len(tree_list) >= 2
    /\ Len(csv["rf_matrix.csv"].rows) = Len(tree_list) + 1
    /\ Len(csv["bsd_matrix.csv"].rows) = Len(tree_list) + 1
    /\ csv["bsd_matrix.csv"].rows[2][2] # csv["bsd_matrix.csv"].rows[2][3]

\* C8: for a set of bipartitions none of which carries a label (the empty set
\* too) the Support Aggregator returns the mean 0 and raises nothing; the
\* bipartitions without a label are in neither the sum nor the count.
C8_UnlabelledMeanZero ==
    pc = "get_mean_BSD" =>
        /\ ret.raised = "no"
        /\ Len(ret.nums) = Cardinality(Labelled(dd_trees[1]))
        /\ (Labelled(dd_trees[1]) = {} => ret.mean = FZero /\ ret.sum_BS = FZero)

C8_Witness ==
    /\ pc = "get_mean_BSD"
    /\ Len(dd_trees[1]) > 0
    /\ Labelled(dd_trees[1]) = {}
    /\ ret.mean = FZero

\* the call of make_distance_matrix for this kind has begun / is in its with block
Started(kind) ==
    IF kind = "rf" THEN ~(dist_type = "rf" /\ pc = "call")
    ELSE dist_type = "bsd" /\ pc # "call"

Running(kind) == dist_type = kind /\ pc \in {"header", "row", "cell"}

Completed(kind) == IF kind = "rf" THEN dist_type = "bsd" ELSE pc = "exit"

\* C9: each call opens its file once, writes the header and then one row per
\* tree in list order, and the file is closed on every exit: after the last
\* row, and when a distance computation raises.
C9_FileLifecycle ==
    \A kind \in {"rf", "bsd"} :
        LET f == csv[FileName(kind)]
        IN  /\ f.opens = IF Started(kind) THEN 1 ELSE 0
            /\ f.state = "open" <=> Running(kind)
            /\ Len(f.rows) <= Len(tree_list) + 1
            /\ f.rows # <<>> => f.rows[1] = Header(tree_dict)
            /\ \A x \in 2..Len(f.rows) :
                   f.rows[x][1] = Label(tree_dict, tree_list[x - 1])
            /\ Completed(kind) => Len(f.rows) = Len(tree_list) + 1
            /\ (pc = "raised" /\ kind = dist_type) => f.state = "closed"

C9_Witness ==
    /\ pc = "raised"
    /\ csv["bsd_matrix.csv"].state = "closed"
    /\ csv["bsd_matrix.csv"].opens = 1
    /\ Len(csv["bsd_matrix.csv"].rows) >= 2

\* C10: for trees whose total support is positive, eBSD, dBSD and BSD lie in
\* [0, 1], because sum_shared and sum_differing never exceed sum_total.
C10_RangesBecauseSums ==
    (pc = "get_bsd" /\ Supports \ {0} # {}) =>
        /\ ret.raised = "no"
        /\ InUnit(ret.value.eBSD) /\ InUnit(ret.value.dBSD) /\ InUnit(ret.value.BSD_val)
        /\ FLe(ret.value.sum_mutual_BS, ret.value.sum_total_BS)
        /\ FLe(ret.value.sum_diff_BS, ret.value.sum_total_BS)

\* C10, amended: eBSD, dBSD and BSD lie in [0, 1] and sum_shared does not
\* exceed sum_total; sum_differing may exceed it by the rounding of the sums.
C10_Ranges ==
    (pc = "get_bsd" /\ Supports \ {0} # {}) =>
        /\ ret.raised = "no"
        /\ InUnit(ret.value.eBSD) /\ InUnit(ret.value.dBSD) /\ InUnit(ret.value.BSD_val)
        /\ FLe(ret.value.sum_mutual_BS, ret.value.sum_total_BS)

C10_Witness ==
    /\ pc = "get_bsd"
    /\ ret.raised = "no"
    /\ ~FLe(ret.value.sum_diff_BS, ret.value.sum_total_BS)
    /\ InUnit(ret.value.dBSD)

====
